---- MODULE Spec2Model ----
(***************************************************************************)
(* Mouth-breathing detector: the per-frame pipeline of the                 *)
(* BreathingDetector component (src/src/utils/sound.js) and the landmark   *)
(* classifier isMouthOpen (src/src/utils/geometry.js).                     *)
(*                                                                         *)
(* Units.  Timestamps are milliseconds, as Date.now() returns them.        *)
(* threshold is held in hundredths (the slider's step is 0.01) and         *)
(* delaySeconds in half seconds (the slider's step is 0.5), so that every  *)
(* comparison of the code is exact integer arithmetic:                     *)
(*   (now - t) / 1000 >= delaySeconds   <=>  2 * (now - t) >= 1000 * half  *)
(*   (now - t) / 1000 >= 60             <=>  now - t >= 60000              *)
(*   m / f > threshold                  <=>  10000 * m^2 > hundredths^2 * f^2 *)
(*                                                                         *)
(* React.  A state setter that changes a value re-renders the component.   *)
(* The render re-creates onResults (its useCallback dependencies changed)  *)
(* and the effect that depends on onResults runs again: it builds a new    *)
(* FaceMesh and a new Camera around the new callback.  The effect returns  *)
(* no cleanup, so the FaceMesh/Camera pairs of earlier renders keep        *)
(* running with the callbacks they were given.  handlers is the set of     *)
(* the closures that are registered with a running Camera; a frame is      *)
(* delivered to any one of them.  The render and the effect are taken      *)
(* together with the setter call that causes them.                         *)
(***************************************************************************)
EXTENDS Integers, FiniteSets, Sequences, TLC

\* ------------------------------------------------------------------ bounds

\* Number of detection results delivered in one run.
MaxFrames == 4

\* Number of times the user moves a slider or presses the sound toggle.
MaxChanges == 1

\* Largest position of a landmark on the line the landmark arguments are
\* drawn from.
MaxCoord == 2

\* ------------------------------------------------------------- environment

\* Date.now() when the component is constructed.  It is a Unix time in
\* milliseconds, hence far above the 60000 ms of the alert cooldown.
StartTime == 100000

\* Milliseconds between two consecutive detection results.
Steps == {1000, 30000, 61000}

\* Positions of the threshold slider (hundredths) the user moves between.
ThresholdValues == {5, 10}

\* Positions of the delay slider (half seconds) the user moves between.
DelayValues == {0, 4}

\* ---------------------------------------------------------------- geometry

LandmarkIdx == {13, 14, 10, 152}

Point(x, y, z) == [ok |-> TRUE, x |-> x, y |-> y, z |-> z]

\* A landmark index that the frame does not carry (landmarks[i] undefined).
NoPoint == [ok |-> FALSE, x |-> 0, y |-> 0, z |-> 0]

\* The square of calculateDistance(p1, p2); Math.sqrt is monotonic, so
\* the classifier's comparison is decided on the squares.
calculateDistanceSq(p1, p2) ==
    (p1.x - p2.x) * (p1.x - p2.x) + (p1.y - p2.y) * (p1.y - p2.y)
        + (p1.z - p2.z) * (p1.z - p2.z)

\* isMouthOpen without the test of the chin landmark: a missing chin is read
\* as the origin.
isMouthOpenChinUnchecked(landmarks, thr) ==
    IF ~landmarks.defined THEN FALSE
    ELSE LET upperLipBottom == landmarks.pts[13]
             lowerLipTop == landmarks.pts[14]
             forehead == landmarks.pts[10]
             chin == landmarks.pts[152]
         IN IF ~upperLipBottom.ok \/ ~lowerLipTop.ok \/ ~forehead.ok
            THEN FALSE
            ELSE LET mouthSq == calculateDistanceSq(upperLipBottom, lowerLipTop)
                     faceSq == calculateDistanceSq(forehead, chin)
                 IN IF faceSq = 0 THEN FALSE
                    ELSE IF thr < 0 THEN TRUE
                    ELSE 10000 * mouthSq > thr * thr * faceSq

\* isMouthOpen with >= in place of >.
isMouthOpenNotStrict(landmarks, thr) ==
    IF ~landmarks.defined THEN FALSE
    ELSE LET upperLipBottom == landmarks.pts[13]
             lowerLipTop == landmarks.pts[14]
             forehead == landmarks.pts[10]
             chin == landmarks.pts[152]
         IN IF ~upperLipBottom.ok \/ ~lowerLipTop.ok \/ ~forehead.ok \/ ~chin.ok
            THEN FALSE
            ELSE LET mouthSq == calculateDistanceSq(upperLipBottom, lowerLipTop)
                     faceSq == calculateDistanceSq(forehead, chin)
                 IN IF faceSq = 0 THEN FALSE
                    ELSE IF thr <= 0 THEN TRUE
                    ELSE 10000 * mouthSq >= thr * thr * faceSq

\* isMouthOpen without the faceHeight === 0 guard: the division yields
\* Infinity (above every threshold) for a non-zero mouth distance and NaN
\* (above none) for 0 / 0.
isMouthOpenNoZeroGuard(landmarks, thr) ==
    IF ~landmarks.defined THEN FALSE
    ELSE LET upperLipBottom == landmarks.pts[13]
             lowerLipTop == landmarks.pts[14]
             forehead == landmarks.pts[10]
             chin == landmarks.pts[152]
         IN IF ~upperLipBottom.ok \/ ~lowerLipTop.ok \/ ~forehead.ok \/ ~chin.ok
            THEN FALSE
            ELSE LET mouthSq == calculateDistanceSq(upperLipBottom, lowerLipTop)
                     faceSq == calculateDistanceSq(forehead, chin)
                 IN IF faceSq = 0 THEN mouthSq > 0
                    ELSE IF thr < 0 THEN TRUE
                    ELSE 10000 * mouthSq > thr * thr * faceSq

\* landmarks: [defined |-> BOOLEAN, pts |-> [LandmarkIdx -> points]];
\* defined = FALSE is a null/undefined landmarks argument.
isMouthOpen(landmarks, thr) ==
    IF ~landmarks.defined THEN FALSE
    ELSE LET upperLipBottom == landmarks.pts[13]
             lowerLipTop == landmarks.pts[14]
             forehead == landmarks.pts[10]
             chin == landmarks.pts[152]
         IN IF ~upperLipBottom.ok \/ ~lowerLipTop.ok \/ ~forehead.ok \/ ~chin.ok
            THEN FALSE
            ELSE LET mouthSq == calculateDistanceSq(upperLipBottom, lowerLipTop)
                     faceSq == calculateDistanceSq(forehead, chin)
                 IN IF faceSq = 0 THEN FALSE
                    ELSE IF thr < 0 THEN TRUE
                    ELSE 10000 * mouthSq > thr * thr * faceSq

\* A face of height 100 whose lips are gap apart: ratio gap / 100.
Face(gap) ==
    [defined |-> TRUE,
     pts |-> [i \in LandmarkIdx |->
                CASE i = 13 -> Point(0, 50, 0)
                  [] i = 14 -> Point(0, 50 + gap, 0)
                  [] i = 10 -> Point(0, 0, 0)
                  [] OTHER -> Point(0, 100, 0)]]

\* Detection results: multiFaceLandmarks absent, empty, or holding one face
\* (maxNumFaces is 1).
NoList == [hasList |-> FALSE, multiFaceLandmarks |-> <<>>]
WithFaces(fs) == [hasList |-> TRUE, multiFaceLandmarks |-> fs]

\* Results with a face: mouth gap 0.03 and 0.08 of the face height.
FaceResults == {WithFaces(<<Face(3)>>), WithFaces(<<Face(8)>>)}

\* Results without a face.
NoFaceResults == {NoList, WithFaces(<<>>)}

\* ------------------------------------------------------------------- state

VARIABLES
    isMouthOpenState,     \* useState(false): the committed, displayed state
    isLoading,            \* useState(true)
    threshold,            \* useState(0.05), in hundredths
    delaySeconds,         \* useState(0), in half seconds
    soundEnabled,         \* useState(true)
    lastStateChangeTime,  \* useRef(Date.now())
    pendingState,         \* useRef(false)
    lastSoundTime,        \* useRef(0)
    handlers,             \* closures of onResults registered with a running Camera
    now,                  \* Date.now()
    step,                 \* what the last step was; for a detection result, whether
                          \* it held a face
    handler,              \* the closure that evaluated the last frame with a face
    raw,                  \* currentState of the last frame with a face
    rawSince,             \* time of the first frame of the current run of equal raw
                          \* values; 0 before the first frame with a face
    fired,                \* the last step called playAlertSound
    firedAt,              \* the times at which playAlertSound was called
    frames,               \* detection results delivered so far
    changes,              \* configuration changes made so far
    argLandmarks,         \* isMouthOpen called on its own: the landmarks argument
    argThreshold,         \* ... the threshold argument, in hundredths
    called,               \* ... the call has returned
    returned              \* ... the value it returned

\* The component's state.
detectorVars == <<isMouthOpenState, isLoading, threshold, delaySeconds,
                  soundEnabled, lastStateChangeTime, pendingState, lastSoundTime,
                  handlers, now, step, handler, raw, rawSince, fired, firedAt,
                  frames, changes>>

\* The state of a call of isMouthOpen on its own.
callVars == <<argLandmarks, argThreshold, called, returned>>

vars == <<detectorVars, callVars>>

\* The values an onResults closure captures (its useCallback dependencies).
Closure(thr, delay, open, sound) ==
    [threshold |-> thr, delaySeconds |-> delay,
     isMouthOpenState |-> open, soundEnabled |-> sound]

\* The closure the current render passes to the effect.
Rendered == Closure(threshold, delaySeconds, isMouthOpenState, soundEnabled)

\* The component after construction.
Mounted ==
    /\ isMouthOpenState = FALSE
    /\ isLoading = TRUE
    /\ threshold = 5
    /\ delaySeconds = 0
    /\ soundEnabled = TRUE
    /\ lastStateChangeTime = StartTime
    /\ pendingState = FALSE
    /\ lastSoundTime = 0
    /\ handlers = {Closure(5, 0, FALSE, TRUE)}
    /\ now = StartTime
    /\ step = "init"
    /\ handler = Closure(5, 0, FALSE, TRUE)
    /\ raw = FALSE
    /\ rawSince = 0
    /\ fired = FALSE
    /\ firedAt = {}
    /\ frames = 0
    /\ changes = 0

\* A landmarks argument that is null/undefined.
NoLandmarks == [defined |-> FALSE, pts |-> [i \in LandmarkIdx |-> NoPoint]]

Init ==
    /\ Mounted
    /\ argLandmarks = NoLandmarks
    /\ argThreshold = 5
    /\ called = FALSE
    /\ returned = FALSE

\* ------------------------------------------------------------- onResults

\* HasFace without the test of the list's length.
HasFaceAnyLength(results) ==
    results.hasList

HasFace(results) ==
    results.hasList /\ Len(results.multiFaceLandmarks) > 0

\* What a detection result holds: a face ("frame") or none ("noface").
Delivered(results) ==
    IF results.hasList /\ Len(results.multiFaceLandmarks) > 0
    THEN "frame"
    ELSE "noface"

\* results.multiFaceLandmarks[0]; undefined when the list is empty.
FirstFace(results) ==
    IF Len(results.multiFaceLandmarks) > 0
    THEN results.multiFaceLandmarks[1]
    ELSE NoLandmarks

\* CommittedAfter without the test of pendingState: a differing frame commits
\* as soon as the delay allows, whatever value is pending.
CommittedAfterNoPending(h, currentState, t) ==
    IF currentState # h.isMouthOpenState
       /\ 2 * (t - lastStateChangeTime) >= 1000 * h.delaySeconds
    THEN currentState
    ELSE isMouthOpenState

\* The value of isMouthOpenState after the "State Change Logic with Delay"
\* of closure h, for raw classification currentState at time t.
CommittedAfter(h, currentState, t) ==
    IF currentState # h.isMouthOpenState
       /\ currentState = pendingState
       /\ 2 * (t - lastStateChangeTime) >= 1000 * h.delaySeconds
    THEN currentState
    ELSE isMouthOpenState

\* RestartsPending without the else branch of lines 66-69: only a frame that
\* agrees with the committed state touches the pending slot.
RestartsPendingOnAgreeOnly(h, currentState) ==
    currentState = h.isMouthOpenState

\* Whether the same logic starts (or restarts) a pending episode.
RestartsPending(h, currentState) ==
    \/ currentState = h.isMouthOpenState
    \/ currentState # pendingState

\* Alerts without the cooldown test.
AlertsNoCooldown(h, t) ==
    /\ h.isMouthOpenState
    /\ h.soundEnabled

\* The "Sound Alert Logic" of closure h at time t: whether it plays the alert.
Alerts(h, t) ==
    /\ h.isMouthOpenState
    /\ h.soundEnabled
    /\ t - lastSoundTime >= 60000

\* SoundTimeAfter with the assignment outside the cooldown test.
SoundTimeAfterAnyOpenFrame(h, t) ==
    IF h.isMouthOpenState /\ h.soundEnabled THEN t ELSE lastSoundTime

\* lastSoundTime.current after the "Sound Alert Logic" of closure h at time t.
SoundTimeAfter(h, t) ==
    IF h.isMouthOpenState /\ h.soundEnabled /\ t - lastSoundTime >= 60000
    THEN t
    ELSE lastSoundTime

\* onResults of closure h receives results, dt milliseconds after the
\* previous step.
Frame(h, results, dt) ==
    /\ frames < MaxFrames
    /\ frames' = frames + 1
    /\ now' = now + dt
    /\ isLoading' = FALSE
    /\ step' = Delivered(results)
    /\ IF HasFace(results)
       THEN LET landmarks == FirstFace(results)
                currentState == isMouthOpen(landmarks, h.threshold)
                committed == CommittedAfter(h, currentState, now')
            IN /\ handler' = h
               /\ raw' = currentState
               /\ rawSince' = IF rawSince # 0 /\ raw = currentState
                               THEN rawSince ELSE now'
               /\ isMouthOpenState' = committed
               /\ IF RestartsPending(h, currentState)
                  THEN /\ pendingState' = currentState
                       /\ lastStateChangeTime' = now'
                  ELSE UNCHANGED <<pendingState, lastStateChangeTime>>
               /\ fired' = Alerts(h, now')
               /\ firedAt' = IF Alerts(h, now') THEN firedAt \cup {now'} ELSE firedAt
               /\ lastSoundTime' = SoundTimeAfter(h, now')
               /\ handlers' = handlers \cup
                     {Closure(threshold, delaySeconds, committed, soundEnabled)}
       ELSE /\ fired' = FALSE
            /\ UNCHANGED <<isMouthOpenState, pendingState, lastStateChangeTime,
                           lastSoundTime, handlers, handler, raw, rawSince,
                           firedAt>>
    /\ UNCHANGED <<threshold, delaySeconds, soundEnabled, changes>>
    /\ UNCHANGED callVars

\* ---------------------------------------------------------------- controls

\* onChange of the sensitivity slider.
SetThreshold(v) ==
    /\ changes < MaxChanges
    /\ v # threshold
    /\ threshold' = v
    /\ handlers' = handlers \cup
          {Closure(v, delaySeconds, isMouthOpenState, soundEnabled)}
    /\ changes' = changes + 1
    /\ step' = "threshold"
    /\ fired' = FALSE
    /\ UNCHANGED <<isMouthOpenState, isLoading, delaySeconds, soundEnabled,
                   lastStateChangeTime, pendingState, lastSoundTime, now,
                   handler, raw, rawSince, firedAt, frames>>
    /\ UNCHANGED callVars

\* onChange of the detection-delay slider.
SetDelaySeconds(v) ==
    /\ changes < MaxChanges
    /\ v # delaySeconds
    /\ delaySeconds' = v
    /\ handlers' = handlers \cup
          {Closure(threshold, v, isMouthOpenState, soundEnabled)}
    /\ changes' = changes + 1
    /\ step' = "delay"
    /\ fired' = FALSE
    /\ UNCHANGED <<isMouthOpenState, isLoading, threshold, soundEnabled,
                   lastStateChangeTime, pendingState, lastSoundTime, now,
                   handler, raw, rawSince, firedAt, frames>>
    /\ UNCHANGED callVars

\* onClick of the sound toggle.
ToggleSound ==
    /\ changes < MaxChanges
    /\ soundEnabled' = ~soundEnabled
    /\ handlers' = handlers \cup
          {Closure(threshold, delaySeconds, isMouthOpenState, ~soundEnabled)}
    /\ changes' = changes + 1
    /\ step' = "sound"
    /\ fired' = FALSE
    /\ UNCHANGED <<isMouthOpenState, isLoading, threshold, delaySeconds,
                   lastStateChangeTime, pendingState, lastSoundTime, now,
                   handler, raw, rawSince, firedAt, frames>>
    /\ UNCHANGED callVars

\* ----------------------------------------------------------- specification

FaceFrame == \E h \in handlers, r \in FaceResults, dt \in Steps : Frame(h, r, dt)

NoFaceFrame == \E h \in handlers, r \in NoFaceResults, dt \in Steps : Frame(h, r, dt)

ChangeThreshold == \E v \in ThresholdValues : SetThreshold(v)

ChangeDelay == \E v \in DelayValues : SetDelaySeconds(v)

Next ==
    \/ FaceFrame
    \/ NoFaceFrame
    \/ ChangeThreshold
    \/ ChangeDelay
    \/ ToggleSound

Spec == Init /\ [][Next]_vars

\* ------------------------------------------------ isMouthOpen on its own

\* The k-th point of the line through the origin with direction (2, 3, 6):
\* two such points are 7 * |a - b| apart, so all three coordinates take part
\* and every distance is a whole number.
LinePoint(k) == Point(2 * k, 3 * k, 6 * k)

\* A landmark entry: missing, or a point of the line.
ArgPoints == {NoPoint} \cup {LinePoint(k) : k \in 0..MaxCoord}

\* The landmarks arguments: null/undefined or a list, each of the four
\* entries missing or present.
ArgLandmarks ==
    {[defined |-> d, pts |-> p] : d \in BOOLEAN, p \in [LandmarkIdx -> ArgPoints]}

\* The threshold arguments, in hundredths: below zero, zero, the default 0.05,
\* and the ratios the line's points can form.
ArgThresholds == {-50, 0, 5, 50, 100, 200}

CallInit ==
    /\ Mounted
    /\ argLandmarks \in ArgLandmarks
    /\ argThreshold \in ArgThresholds
    /\ called = FALSE
    /\ returned = FALSE

\* isMouthOpen(argLandmarks, argThreshold) returns.
Call ==
    /\ ~called
    /\ called' = TRUE
    /\ returned' = isMouthOpen(argLandmarks, argThreshold)
    /\ UNCHANGED <<argLandmarks, argThreshold>>
    /\ UNCHANGED detectorVars

CallNext == Call

CallSpec == CallInit /\ [][CallNext]_vars

\* ------------------------------------------------------------------ claims

\* This step delivered a detection result with a face to a handler.
FrameStep == frames' # frames /\ step' = "frame"

\* C1: the committed state changes to a value v only on a frame whose raw
\* value is v, where pendingState has been v since lastStateChangeTime and
\* at least delaySeconds have passed since then.
C1_CommitOnlyAfterDelay ==
    [][(isMouthOpenState' # isMouthOpenState) =>
          /\ FrameStep
          /\ raw' = isMouthOpenState'
          /\ pendingState = isMouthOpenState'
          /\ pendingState' = isMouthOpenState'
          /\ 2 * (now' - lastStateChangeTime) >= 1000 * delaySeconds]_vars

\* C2: while the raw value is opposite to the committed state, the committed
\* state flips on the first frame at which the time since the raw value
\* first differed has reached delaySeconds, and on no earlier frame.  Stated
\* for delaySeconds > 0; the case delaySeconds = 0 is C4.
C2_FlipsWhenDelayReached ==
    [][(FrameStep /\ delaySeconds > 0 /\ raw' # isMouthOpenState) =>
          IF 2 * (now' - rawSince') >= 1000 * delaySeconds
          THEN isMouthOpenState' = raw'
          ELSE isMouthOpenState' = isMouthOpenState]_vars

\* C3: with delaySeconds > 0 the committed state never changes while every
\* run of differing raw values is shorter than delaySeconds.
C3_ShortFlipsNeverCommit ==
    [][(delaySeconds > 0 /\ isMouthOpenState' # isMouthOpenState) =>
          2 * (now' - rawSince') >= 1000 * delaySeconds]_vars

\* C4 as stated: with delaySeconds = 0 every frame whose raw value differs
\* from the committed state flips the committed state on that frame.
C4_AnyDifferingFrameFlips ==
    [][(FrameStep /\ delaySeconds = 0 /\ raw' # isMouthOpenState) =>
          isMouthOpenState' = raw']_vars

\* C4 as amended: with delaySeconds = 0 a frame whose raw value differs from
\* the committed state flips it on that frame only if pendingState already
\* holds that raw value; a frame whose raw value differs from pendingState
\* too starts the pending episode and leaves the committed state as it was.
C4_FlipsOnlyWhenPending ==
    [][(FrameStep /\ delaySeconds = 0 /\ raw' # isMouthOpenState) =>
          /\ (isMouthOpenState' # isMouthOpenState) =>
                (pendingState = raw' /\ isMouthOpenState' = raw')
          /\ (pendingState # raw') =>
                /\ isMouthOpenState' = isMouthOpenState
                /\ pendingState' = raw'
                /\ lastStateChangeTime' = now']_vars

\* Two consecutive open frames under delaySeconds = 0, from the start: the
\* first started the pending episode, the second committed.
C4_Witness ==
    /\ frames = 2
    /\ changes = 0
    /\ step = "frame"
    /\ delaySeconds = 0
    /\ raw = TRUE
    /\ rawSince < now
    /\ lastStateChangeTime = rawSince
    /\ pendingState = TRUE
    /\ isMouthOpenState = TRUE

\* C5: an alert fires on a frame only if the committed state is true at that
\* frame (before or after the frame's own commit), alerts are enabled, and no
\* alert has fired before or the last one is at least 60 s old.
C5_FiresOnlyWhenQualified ==
    [][fired' =>
          /\ isMouthOpenState \/ isMouthOpenState'
          /\ soundEnabled
          /\ lastSoundTime = 0 \/ now' - lastSoundTime >= 60000]_vars

\* C6: a frame at which the committed state is true and alerts are enabled,
\* 30 s after the frame that fired last, does not fire; such a frame 61 s
\* after the frame that fired last fires.
C6_CooldownSpacing ==
    [][(FrameStep /\ isMouthOpenState /\ soundEnabled /\ lastSoundTime # 0) =>
          /\ (now' - lastSoundTime = 30000) => ~fired'
          /\ (now' - lastSoundTime = 61000) => fired']_vars

\* C7: while alerts are disabled no frame fires an alert.
C7_DisabledNeverFires == fired => soundEnabled

\* C8: from the initial state, with delay 0 and alerts enabled, a first frame
\* classified open commits true and fires on that frame; a second open frame
\* less than 60 s later does not fire.
C8_FirstFrameCommitsAndFires ==
    /\ (frames = 1 /\ changes = 0 /\ step = "frame" /\ raw = TRUE) =>
          (isMouthOpenState /\ fired)
    /\ (frames = 2 /\ changes = 0 /\ step = "frame" /\ raw = TRUE
            /\ rawSince < now /\ now - rawSince < 60000) =>
          ~fired

\* C9: the alert decision of a frame sees the committed state the frame has
\* just produced: the frame that commits true fires (alerts enabled, cooldown
\* elapsed), the frame that commits false does not.
C9_AlertSeesNewCommit ==
    [][(FrameStep /\ isMouthOpenState' # isMouthOpenState) =>
          /\ (isMouthOpenState' /\ soundEnabled
                /\ now' - lastSoundTime >= 60000) => fired'
          /\ ~isMouthOpenState' => ~fired']_vars

\* C10: every frame is evaluated with the configuration values current when
\* it is processed.
C10_FrameUsesCurrentConfig ==
    [][FrameStep =>
          /\ handler'.threshold = threshold
          /\ handler'.delaySeconds = delaySeconds
          /\ handler'.soundEnabled = soundEnabled]_vars

\* All four required landmarks of a landmarks argument are there.
Complete(l) ==
    l.defined /\ \A i \in LandmarkIdx : l.pts[i].ok

\* calculateDistance(a, b) for two points of the line: 7 * |a - b|.
LineDistance(a, b) ==
    IF a.x >= b.x THEN 7 * ((a.x - b.x) \div 2) ELSE 7 * ((b.x - a.x) \div 2)

mouthDistance(l) == LineDistance(l.pts[13], l.pts[14])

faceHeight(l) == LineDistance(l.pts[10], l.pts[152])

\* C11: for a landmarks argument that is absent, or that lacks at least one
\* of the landmarks 13, 14, 10, 152, isMouthOpen returns false, whatever the
\* threshold and the other landmarks are.
C11_IncompleteIsClosed ==
    (called /\ ~Complete(argLandmarks)) => returned = FALSE

\* A list that lacks only the chin, with the lips apart and a threshold
\* below zero, has been classified closed.
C11_Witness ==
    /\ called
    /\ argLandmarks.defined
    /\ ~argLandmarks.pts[152].ok
    /\ argLandmarks.pts[13] = LinePoint(0)
    /\ argLandmarks.pts[14] = LinePoint(2)
    /\ argLandmarks.pts[10] = LinePoint(1)
    /\ argThreshold = -50
    /\ returned = FALSE

\* C12: for a complete argument with a non-zero face height isMouthOpen
\* returns true exactly when mouthDistance / faceHeight > threshold; a ratio
\* equal to the threshold gives false; and for a fixed threshold, once it is
\* true for a ratio it is true for every ratio at least as large.
C12_StrictAndMonotonic ==
    (called /\ Complete(argLandmarks) /\ faceHeight(argLandmarks) # 0) =>
        /\ returned =
              (100 * mouthDistance(argLandmarks)
                  > argThreshold * faceHeight(argLandmarks))
        /\ (100 * mouthDistance(argLandmarks)
                  = argThreshold * faceHeight(argLandmarks)) => returned = FALSE
        /\ \A g \in ArgLandmarks :
              (/\ Complete(g)
               /\ faceHeight(g) # 0
               /\ returned
               /\ mouthDistance(g) * faceHeight(argLandmarks)
                      >= mouthDistance(argLandmarks) * faceHeight(g))
                 => isMouthOpen(g, argThreshold)

\* A ratio of exactly the threshold (7 / 14 against 0.50) has been
\* classified closed.
C12_Witness ==
    /\ called
    /\ Complete(argLandmarks)
    /\ mouthDistance(argLandmarks) = 7
    /\ faceHeight(argLandmarks) = 14
    /\ argThreshold = 50
    /\ returned = FALSE

\* C13: for a complete argument whose forehead and chin coincide isMouthOpen
\* returns false for every mouth distance and every threshold, those at or
\* below zero included.
C13_ZeroSpanIsClosed ==
    (called /\ Complete(argLandmarks)
        /\ argLandmarks.pts[10] = argLandmarks.pts[152]) => returned = FALSE

\* Forehead and chin coincide, the lips are apart and the threshold is below
\* zero: classified closed.
C13_Witness ==
    /\ called
    /\ Complete(argLandmarks)
    /\ argLandmarks.pts[10] = argLandmarks.pts[152]
    /\ mouthDistance(argLandmarks) = 14
    /\ argThreshold = -50
    /\ returned = FALSE

\* C14: a frame whose raw value differs from the committed state and from
\* pendingState starts a pending episode (pendingState = raw, pending
\* timestamp = now) and leaves the committed state unchanged, whatever
\* delaySeconds is.
C14_NewEpisodeDoesNotCommit ==
    [][(FrameStep /\ raw' # isMouthOpenState /\ raw' # pendingState) =>
          /\ pendingState' = raw'
          /\ lastStateChangeTime' = now'
          /\ isMouthOpenState' = isMouthOpenState]_vars

\* The first frame of a run under a delay of 2 s, classified open: the
\* episode has started and nothing is committed.
C14_Witness ==
    /\ frames = 1
    /\ step = "frame"
    /\ delaySeconds = 4
    /\ raw = TRUE
    /\ pendingState = TRUE
    /\ lastStateChangeTime = now
    /\ isMouthOpenState = FALSE

C16_QualifyingFrameFires ==
    [][(FrameStep /\ isMouthOpenState /\ soundEnabled
          /\ (firedAt = {} \/ now' - lastSoundTime >= 60000)) =>
          (fired' /\ lastSoundTime' = now')]_vars

\* C17: a frame that does not fire leaves lastSoundTime unchanged.
C17_NoFireKeepsSoundTime ==
    [][(frames' # frames /\ ~fired') => lastSoundTime' = lastSoundTime]_vars

\* A frame evaluated by a closure with the state open and alerts enabled,
\* inside the cooldown of an earlier alert: it has not fired and
\* lastSoundTime is still that alert's time.
C17_Witness ==
    /\ step = "frame"
    /\ ~fired
    /\ handler.isMouthOpenState
    /\ handler.soundEnabled
    /\ lastSoundTime \in firedAt
    /\ now - lastSoundTime < 60000
    /\ now > lastSoundTime

\* C18: a detection result without a face changes neither the committed
\* state, pendingState, the pending timestamp nor lastSoundTime and fires
\* nothing; the pending episode keeps its start, so that the first frame
\* after the gap, evaluated by the current closure, commits if the delay has
\* passed since that start.
C18_NoFaceChangesNothing ==
    [][/\ (frames' # frames /\ step' = "noface") =>
             /\ UNCHANGED <<isMouthOpenState, pendingState,
                            lastStateChangeTime, lastSoundTime>>
             /\ ~fired'
       /\ (step = "noface" /\ FrameStep /\ handler' = Rendered
             /\ raw' # isMouthOpenState /\ raw' = pendingState
             /\ 2 * (now' - lastStateChangeTime) >= 1000 * delaySeconds) =>
             isMouthOpenState' = raw']_vars

\* After a result without a face, 30 s into a pending episode under a delay
\* of 2 s: the episode still has its start time.
C18_Witness ==
    /\ step = "noface"
    /\ delaySeconds = 4
    /\ pendingState = TRUE
    /\ isMouthOpenState = FALSE
    /\ raw = TRUE
    /\ lastStateChangeTime = rawSince
    /\ now - lastStateChangeTime = 30000

\* C19: every frame is evaluated by the closure of the current render, so
\* its raw value is compared with the current committed state.
C19_HandlerSeesCurrentState ==
    [][FrameStep => handler'.isMouthOpenState = isMouthOpenState]_vars

====
